---- MODULE Spec2Model ----
(***************************************************************************)
(* Session store of TenCyclesofFate: backend/app/db.py (connection         *)
(* provider) and backend/app/state_manager.py (session store) over the     *)
(* game_sessions table created by scripts/init_db.py.                      *)
(*                                                                         *)
(* Request handlers run the store's operations concurrently against one    *)
(* shared table.  Every operation is split at the points where it touches  *)
(* shared state: handle acquisition, the query, the commit, the dispatch   *)
(* to the real-time sinks and the release of the handle in `finally`.      *)
(*                                                                         *)
(* Spec        the store, two handlers, every operation and backend        *)
(* SpecPool    the store on a built pool that other handlers borrow from   *)
(* SpecInitDb  the bootstrap script initialize_database                    *)
(***************************************************************************)
EXTENDS Integers, Sequences, FiniteSets, TLC

(* ------------------------------ bounds --------------------------------- *)

\* total number of store operations started in one behaviour
MaxOps == 2
\* the clock (time.time(), CURRENT_TIMESTAMP) reads 1 to MaxTime
MaxTime == 2
\* largest n passed to get_last_n_inputs
MaxN == 2
\* largest limit passed to get_most_recent_sessions
MaxLimit == 2
\* readings of the clock (time.time()) that fall into one second
TicksPerSecond == 2

(* ------------------------- program constants --------------------------- *)

\* db.py:28  "pool_size": 5
pool_size == 5

\* init_db.py:41  max_retries = 10
max_retries == 10

\* the concurrent request handlers
Handlers == {1, 2}

\* player ids, given with their characters (display_name indexes them)
Players == {"ab", "xyz"}

PlayerChars(p) == IF p = "ab" THEN <<"a", "b">> ELSE <<"x", "y", "z">>

\* settings.DATABASE_URL schemes: the two supported ones and any other
Schemes == {"mysql", "sqlite", "other"}

(* --------------------------- documents --------------------------------- *)

\* A session document is a Python dict: a function from its keys to values.
EmptyDoc == [k \in {} |-> 0]

\* Python's None, as returned by get_session and by the procedures
None == [None |-> TRUE]

\* an exception that left the operation (UnboundLocalError out of finally)
Raised == [Raised |-> TRUE]

\* d[key] = v on a dict
Put(d, key, v) == [k \in (DOMAIN d) \cup {key} |-> IF k = key THEN v ELSE d[k]]

\* d.get(key, default)
DictGet(d, key, default) == IF key \in DOMAIN d THEN d[key] ELSE default

History ==
    << [role |-> "user", content |-> "a"],
       [role |-> "bot",  content |-> "b"],
       [role |-> "user", content |-> "c"] >>

\* the documents callers pass to save_session
CallerDocs ==
    { [k |-> 1],
      [k |-> 2, last_modified |-> 0],
      [internal_history |-> History] }

Levels == {"light"}
Reasons == {"cheat"}

(* ----------------------- serialisation (json) -------------------------- *)

\* order in which the members of a document are written
KeyOrder == <<"k", "internal_history", "pending_punishment", "last_modified">>

RECURSIVE Members(_, _)
Members(d, keys) ==
    IF keys = <<>> THEN <<>>
    ELSE IF Head(keys) \in DOMAIN d
         THEN << <<Head(keys), d[Head(keys)]>> >> \o Members(d, Tail(keys))
         ELSE Members(d, Tail(keys))

\* A blob is the content of the session_data TEXT column: NULL, the empty
\* string, or a text "{" members "}" whose closing brace may be missing.
NullBlob    == [kind |-> "null",  members |-> <<>>, closed |-> FALSE]
EmptyBlob   == [kind |-> "empty", members |-> <<>>, closed |-> FALSE]
CorruptBlob == [kind |-> "text",  members |-> <<>>, closed |-> FALSE]

\* json.dumps(session_data, ensure_ascii=False)
json_dumps(d) == [kind |-> "text", members |-> Members(d, KeyOrder), closed |-> TRUE]

\* whether json.loads(blob) succeeds
json_ok(blob) == blob.kind = "text" /\ blob.closed

\* the last member of the text with key k (duplicate keys: the last wins)
LastMember(ms, k) ==
    ms[CHOOSE i \in 1..Len(ms) :
          /\ ms[i][1] = k
          /\ \A j \in (i+1)..Len(ms) : ms[j][1] # k][2]

\* json.loads(blob), for a blob on which it succeeds
json_loads(blob) ==
    [k \in {blob.members[i][1] : i \in 1..Len(blob.members)} |->
        LastMember(blob.members, k)]

\* Python truth value of row['session_data']: None and '' are falsy
Truthy(blob) == blob.kind = "text"

(* ----------------------------- the table ------------------------------- *)

\* rows of game_sessions with the given primary key
RowsOf(tbl, p) == {r \in tbl : r.player_id = p}

HasRow(tbl, p) == RowsOf(tbl, p) # {}

\* Upsert as INSERT IGNORE: a row that exists keeps its blob
Upsert_insert_ignore(tbl, p, blob, ts) ==
    IF HasRow(tbl, p) THEN tbl
    ELSE tbl \cup {[player_id |-> p, session_data |-> blob, last_modified |-> ts]}

\* Upsert as a plain INSERT into a table without the primary key
Upsert_plain_insert(tbl, p, blob, ts) ==
    tbl \cup {[player_id |-> p, session_data |-> blob, last_modified |-> ts]}

\* Upsert whose update is not restricted to the key
Upsert_any_row(tbl, p, blob, ts) ==
    IF tbl # {}
    THEN {[r EXCEPT !.session_data = blob, !.last_modified = ts] : r \in tbl}
    ELSE {[player_id |-> p, session_data |-> blob, last_modified |-> ts]}

\* INSERT ... ON DUPLICATE KEY UPDATE session_data = VALUES(session_data);
\* the last_modified column is DEFAULT / ON UPDATE CURRENT_TIMESTAMP
Upsert(tbl, p, blob, ts) ==
    IF HasRow(tbl, p)
    THEN {IF r.player_id = p
          THEN [r EXCEPT !.session_data = blob, !.last_modified = ts]
          ELSE r : r \in tbl}
    ELSE tbl \cup {[player_id |-> p, session_data |-> blob, last_modified |-> ts]}

\* cursor.fetchone() after SELECT session_data ... WHERE player_id = %s
FetchOne(tbl, p) == CHOOSE r \in RowsOf(tbl, p) : TRUE

\* CURRENT_TIMESTAMP of the last_modified column: TIMESTAMP without a
\* fractional part keeps whole seconds
CURRENT_TIMESTAMP(t) == t \div TicksPerSecond

(* ------------------------------ state ---------------------------------- *)

VARIABLES
    scheme,        \* urlparse(settings.DATABASE_URL).scheme
    db_pool,       \* db.db_pool: "None" or "pool"
    pool_lent,     \* handles taken from the pool and not given back
    others_lent,   \* handles the pool has lent to other request handlers
    sqlite_open,   \* sqlite3 connections opened and not closed
    table,         \* the rows of game_sessions
    now,           \* the clock: the last time read
    ops,           \* operations started so far
    op,            \* per handler: the operation it runs
    pc,            \* per handler: its position
    player_id,     \* per handler: the player_id argument
    n_arg,         \* per handler: n of get_last_n_inputs / limit
    punishment,    \* per handler: level and reason of flag_player_for_punishment
    session_data,  \* per handler: the dict handed to save_session
    conn,          \* per handler: the handle it holds: "None", "mysql", "sqlite"
    pending,       \* per handler: the upsert executed and not yet committed
    result,        \* per handler: what the operation returned
    ws_sent,       \* per player: full_state messages given to websocket_manager
    live_sent,     \* per player: updates given to live_manager
    \* history variables, read by the properties only
    arg_doc,       \* per handler: the document as the caller passed it
    path,          \* per handler: the path its get_session took
    committed,     \* per handler: its save_session has committed
    dispatched,    \* per handler: its save_session has dispatched
    commits,       \* per player: number of committed saves
    last_commit,   \* per player: the last committed save
    saw_commit,    \* per handler: last_commit of the player when it read
    fault,         \* per handler: a backend failure hit its operation
    flag_skipped,  \* per player: a flag found no stored session
    \* scripts/init_db.py
    init_db,       \* initialize_database: its position and locals
    table_exists   \* game_sessions has been created

provider_vars == <<scheme, db_pool>>
handle_vars   == <<pool_lent, others_lent, sqlite_open, conn>>
call_vars     == <<op, player_id, n_arg, punishment, ops>>
sink_vars     == <<ws_sent, live_sent>>
hist_vars     == <<arg_doc, path, committed, dispatched, commits, last_commit,
                   saw_commit, fault, flag_skipped>>
boot_vars     == <<init_db, table_exists>>

vars == <<scheme, db_pool, pool_lent, others_lent, sqlite_open, table, now, ops, op, pc,
          player_id, n_arg, punishment, session_data, conn, pending, result,
          ws_sent, live_sent, arg_doc, path, committed, dispatched, commits,
          last_commit, saw_commit, fault, flag_skipped, init_db, table_exists>>

\* seen: the number of committed saves to the player when the statement was
\* executed (history, read by the properties only)
NoPending == [blob |-> NullBlob, ts |-> 0, seen |-> 0]

\* A committed save: the operation, the document handed to save_session, the
\* path a read of the row would have taken just before the commit, and, for
\* a save that follows a read of the same operation, the document of a save
\* committed between that read and this commit (None if there is none).
NoCommit  == [op |-> "none", arg |-> EmptyDoc, prev |-> "none", lost |-> None]
NoPunishment == [level |-> "light", reason |-> "cheat"]

\* initialize_database is not running: conn = None, cursor = None
NotRunning ==
    [pc |-> "not_running", attempt |-> 0, conn |-> "None", cursor |-> "None",
     connects |-> 0, executed |-> FALSE]

\* CREATE TABLE IF NOT EXISTS keeps the rows of an existing table: the store
\* starts on an empty table or on one holding a row from before, either a
\* session saved by an earlier run or a row the store did not write, whose
\* session_data TEXT is NULL, empty or not a JSON text.
StoredDoc == [internal_history |-> History, last_modified |-> 0]

InitTables ==
    {{}} \cup {{[player_id |-> "ab", session_data |-> b, last_modified |-> 0]} :
                b \in {json_dumps(StoredDoc), NullBlob, EmptyBlob, CorruptBlob}}

\* no handler has started, nothing is lent, nothing was sent or committed
Idle ==
    /\ pool_lent = 0
    /\ others_lent = 0
    /\ sqlite_open = 0
    /\ now = 1
    /\ ops = 0
    /\ op = [h \in Handlers |-> "none"]
    /\ pc = [h \in Handlers |-> "idle"]
    /\ player_id = [h \in Handlers |-> "ab"]
    /\ n_arg = [h \in Handlers |-> 0]
    /\ punishment = [h \in Handlers |-> NoPunishment]
    /\ session_data = [h \in Handlers |-> EmptyDoc]
    /\ conn = [h \in Handlers |-> "None"]
    /\ pending = [h \in Handlers |-> NoPending]
    /\ result = [h \in Handlers |-> None]
    /\ ws_sent = [p \in Players |-> 0]
    /\ live_sent = [p \in Players |-> 0]
    /\ arg_doc = [h \in Handlers |-> EmptyDoc]
    /\ path = [h \in Handlers |-> "none"]
    /\ committed = [h \in Handlers |-> FALSE]
    /\ dispatched = [h \in Handlers |-> FALSE]
    /\ commits = [p \in Players |-> 0]
    /\ last_commit = [p \in Players |-> NoCommit]
    /\ saw_commit = [h \in Handlers |-> NoCommit]
    /\ fault = [h \in Handlers |-> FALSE]
    /\ flag_skipped = [p \in Players |-> FALSE]

\* The store starts after the bootstrap: the table exists.
Init ==
    /\ scheme \in Schemes
    /\ db_pool = "None"
    /\ table \in InitTables
    /\ Idle
    /\ init_db = NotRunning
    /\ table_exists = TRUE

\* No handler is waiting to hand back a result.  Handing back a result is
\* local to a handler (return_to_caller), so it is taken before any other
\* step: every other action waits for it.
NoneDone == \A g \in Handlers : pc[g] # "done"

(* ----------------------- connection provider --------------------------- *)

\* initialize_db_pool(): builds the pool for a mysql URL; a
\* mysql.connector.Error leaves db_pool None; other schemes build nothing.
initialize_db_pool ==
    /\ NoneDone
    /\ db_pool = "None"
    /\ \/ scheme = "mysql" /\ db_pool' = "pool"
       \/ scheme = "mysql" /\ db_pool' = "None"
       \/ scheme # "mysql" /\ db_pool' = db_pool
    /\ UNCHANGED <<scheme, table, now, pc, session_data, pending, result>>
    /\ UNCHANGED boot_vars
    /\ UNCHANGED <<handle_vars, call_vars, sink_vars, hist_vars>>

\* get_db_connection without the `if db_pool is None` test of lines 50-52,
\* on a pool that is built on first use
get_db_connection_lazy_pool ==
    CASE scheme = "sqlite" -> {"sqlite", "None"}
      [] scheme = "mysql" ->
            IF pool_lent + others_lent < pool_size THEN {"mysql", "None"}
            ELSE {"None"}
      [] OTHER -> {"None"}

\* The handles get_db_connection() can return in the current state: a fresh
\* sqlite3 connection, a handle lent by the pool, or None (sqlite3.Error,
\* pool never built, backend error, unsupported scheme).  A pool with all
\* pool_size handles lent raises PoolError at once, a mysql.connector.Error
\* that line 60 turns into None.
get_db_connection ==
    CASE scheme = "sqlite" -> {"sqlite", "None"}
      [] scheme = "mysql" ->
            IF db_pool = "None" THEN {"None"}
            ELSE IF pool_lent + others_lent < pool_size THEN {"mysql", "None"}
            ELSE {"None"}
      [] OTHER -> {"None"}

\* h takes the handle c: the pool lends one, or a sqlite connection opens
Acquire(h, c) ==
    /\ conn' = [conn EXCEPT ![h] = c]
    /\ pool_lent' = IF c = "mysql" THEN pool_lent + 1 ELSE pool_lent
    /\ sqlite_open' = IF c = "sqlite" THEN sqlite_open + 1 ELSE sqlite_open
    /\ UNCHANGED others_lent

\* The `finally` block of get_session, save_session and
\* get_most_recent_sessions.  A mysql handle that is_connected() closes the
\* cursor first: with `cursor` unbound (conn.cursor() raised) that raises
\* UnboundLocalError and conn.close() is never reached.  Otherwise the
\* handle is closed.  `connected` is the answer of conn.is_connected().
FinallyRaises(h, cursor_bound, connected) ==
    conn[h] = "mysql" /\ connected /\ ~cursor_bound

Finally(h, cursor_bound, connected) ==
    /\ conn' = [conn EXCEPT ![h] = "None"]
    /\ pool_lent' = IF conn[h] = "mysql" /\ ~FinallyRaises(h, cursor_bound, connected)
                    THEN pool_lent - 1 ELSE pool_lent
    /\ sqlite_open' = IF conn[h] = "sqlite" THEN sqlite_open - 1 ELSE sqlite_open
    /\ UNCHANGED others_lent

(* --------------------------- pure helpers ------------------------------ *)

\* a Python list as an operation's result
List(s) == [list |-> s]

\* seq[start:] with Python's slice rules (a negative start counts from the end)
SliceFrom(seq, start) ==
    LET len == Len(seq)
        lo  == IF start < 0
               THEN (IF len + start < 0 THEN 0 ELSE len + start)
               ELSE (IF start > len THEN len ELSE start)
    IN  SubSeq(seq, lo + 1, len)

RECURSIVE UserContents(_)
\* [item["content"] for item in history if item.get("role") == "user"]
UserContents(history) ==
    IF history = <<>> THEN <<>>
    ELSE IF Head(history).role = "user"
         THEN <<Head(history).content>> \o UserContents(Tail(history))
         ELSE UserContents(Tail(history))

\* get_last_n_inputs after its get_session returned `session`
last_n_inputs(session, n) ==
    IF session = None \/ session = EmptyDoc THEN <<>>
    ELSE SliceFrom(UserContents(DictGet(session, "internal_history", <<>>)), 0 - n)

\* get_session, lines 28-34, on a query that succeeded: the value returned
\* and the path taken
read_session(tbl, p) ==
    IF ~HasRow(tbl, p) THEN [value |-> None, path |-> "no_row"]
    ELSE LET blob == FetchOne(tbl, p).session_data IN
         IF ~Truthy(blob) THEN [value |-> None, path |-> "empty_blob"]
         ELSE IF json_ok(blob) THEN [value |-> json_loads(blob), path |-> "ok"]
         ELSE [value |-> None, path |-> "error_decode"]

(* --------------------------- the callers ------------------------------- *)

\* the operation of h is over with result r; what save_session worked on
\* is dropped with its frame
Done(h, r) ==
    /\ pc' = [pc EXCEPT ![h] = "done"]
    /\ result' = [result EXCEPT ![h] = r]
    /\ session_data' = [session_data EXCEPT ![h] = EmptyDoc]
    /\ arg_doc' = [arg_doc EXCEPT ![h] = EmptyDoc]

\* h goes on to save_session(player_id, d)
ThenSave(h, d) ==
    /\ pc' = [pc EXCEPT ![h] = "save_acquire"]
    /\ session_data' = [session_data EXCEPT ![h] = d]
    /\ arg_doc' = [arg_doc EXCEPT ![h] = d]
    /\ UNCHANGED result

\* after_get_session whose flag_player_for_punishment starts from an empty
\* session when there is none (session = session or {})
after_get_session_flag_creates(h, r, raised) ==
    IF raised THEN Done(h, Raised)
    ELSE CASE op[h] = "create_or_get_session" ->
                IF r = None THEN ThenSave(h, EmptyDoc) ELSE Done(h, r)
           [] op[h] = "get_last_n_inputs" ->
                Done(h, List(last_n_inputs(r, n_arg[h])))
           [] op[h] = "flag_player_for_punishment" ->
                IF r = None \/ r = EmptyDoc
                THEN ThenSave(h, Put(EmptyDoc, "pending_punishment", punishment[h]))
                ELSE ThenSave(h, Put(r, "pending_punishment", punishment[h]))
           [] OTHER -> Done(h, r)

\* What the caller of get_session does with its return value r (or with the
\* exception, when `raised`): get_session itself, create_or_get_session
\* lines 89-93, get_last_n_inputs lines 97-100, flag_player_for_punishment
\* lines 146-152.
after_get_session(h, r, raised) ==
    IF raised THEN Done(h, Raised)
    ELSE CASE op[h] = "create_or_get_session" ->
                IF r = None THEN ThenSave(h, EmptyDoc) ELSE Done(h, r)
           [] op[h] = "get_last_n_inputs" ->
                Done(h, List(last_n_inputs(r, n_arg[h])))
           [] op[h] = "flag_player_for_punishment" ->
                IF r = None \/ r = EmptyDoc
                THEN Done(h, None)
                ELSE ThenSave(h, Put(r, "pending_punishment", punishment[h]))
           [] OTHER -> Done(h, r)

\* create_or_get_session without its `return session`
after_save_session_no_return(h, sd, raised) ==
    Done(h, IF raised THEN Raised ELSE None)

\* What the caller of save_session does when it returns: save_session,
\* clear_session and flag_player_for_punishment return None;
\* create_or_get_session returns the dict it passed (line 93), which
\* save_session has stamped in place.
after_save_session(h, sd, raised) ==
    Done(h, IF raised THEN Raised
            ELSE IF op[h] = "create_or_get_session" THEN sd
            ELSE None)

(* ---------------------------- get_session ------------------------------ *)

\* lines 17-19: conn = db.get_db_connection(); if not conn: return None
get_session_acquire(h) ==
    /\ NoneDone
    /\ pc[h] = "get_acquire"
    /\ \E c \in get_db_connection :
          /\ Acquire(h, c)
          /\ fault' = [fault EXCEPT ![h] = (c = "None")]
          /\ IF c = "None"
             THEN /\ path' = [path EXCEPT ![h] = "no_handle"]
                  /\ after_get_session(h, None, FALSE)
             ELSE /\ pc' = [pc EXCEPT ![h] = "get_query"]
                  /\ UNCHANGED <<path, result, session_data, arg_doc>>
    /\ UNCHANGED <<provider_vars, boot_vars, call_vars, sink_vars, table, now, pending>>
    /\ UNCHANGED <<committed, dispatched, commits, last_commit, saw_commit>>
    /\ UNCHANGED flag_skipped

\* lines 21-43 and the return to the caller: the cursor, the SELECT,
\* fetchone and the decoding; every exception is logged and turned into
\* None; then `finally`.  The %s placeholder of the statement is a syntax
\* error for sqlite3, which raises OperationalError on every execute.
get_session_query(h) ==
    /\ NoneDone
    /\ pc[h] = "get_query"
    /\ \E connected \in BOOLEAN :
       \/ \* conn.cursor() raises
          /\ path' = [path EXCEPT ![h] = "error_cursor"]
          /\ fault' = [fault EXCEPT ![h] = TRUE]
          /\ Finally(h, FALSE, connected)
          /\ after_get_session(h, None, FinallyRaises(h, FALSE, connected))
          /\ UNCHANGED flag_skipped
       \/ \* cursor.execute() raises
          /\ path' = [path EXCEPT ![h] =
                         IF conn[h] = "sqlite" THEN "error_syntax" ELSE "error_query"]
          /\ fault' = [fault EXCEPT ![h] = (conn[h] # "sqlite")]
          /\ Finally(h, TRUE, connected)
          /\ after_get_session(h, None, FALSE)
          /\ UNCHANGED flag_skipped
       \/ \* the query succeeds
          /\ conn[h] = "mysql"
          /\ LET r == read_session(table, player_id[h]) IN
                /\ path' = [path EXCEPT ![h] = r.path]
                /\ Finally(h, TRUE, connected)
                /\ after_get_session(h, r.value, FALSE)
                /\ flag_skipped' =
                      IF /\ op[h] = "flag_player_for_punishment"
                         /\ r.path \in {"no_row", "empty_blob"}
                      THEN [flag_skipped EXCEPT ![player_id[h]] = TRUE]
                      ELSE flag_skipped
          /\ UNCHANGED fault
    /\ saw_commit' = [saw_commit EXCEPT ![h] = last_commit[player_id[h]]]
    /\ UNCHANGED <<provider_vars, boot_vars, call_vars, sink_vars, table, now, pending>>
    /\ UNCHANGED <<committed, dispatched, commits, last_commit>>

(* ---------------------------- save_session ----------------------------- *)

\* lines 50-52: conn = db.get_db_connection(); if not conn: return
save_session_acquire(h) ==
    /\ NoneDone
    /\ pc[h] = "save_acquire"
    /\ \E c \in get_db_connection :
          /\ Acquire(h, c)
          /\ fault' = [fault EXCEPT ![h] = @ \/ c = "None"]
          /\ IF c = "None"
             THEN after_save_session(h, session_data[h], FALSE)
             ELSE /\ pc' = [pc EXCEPT ![h] = "save_execute"]
                  /\ UNCHANGED <<result, session_data, arg_doc>>
    /\ UNCHANGED <<provider_vars, boot_vars, call_vars, sink_vars, table, now, pending>>
    /\ UNCHANGED <<path, committed, dispatched, commits, last_commit, saw_commit>>
    /\ UNCHANGED flag_skipped

\* save_session_execute with lines 55 and 56 swapped: the document is
\* serialised before it is stamped
save_session_execute_stamp_late(h) ==
    /\ NoneDone
    /\ pc[h] = "save_execute"
    /\ \E t \in now..MaxTime, connected \in BOOLEAN :
       LET stamped == Put(session_data[h], "last_modified", t) IN
          /\ now' = t
          /\ \/ \* conn.cursor() raises
                /\ fault' = [fault EXCEPT ![h] = TRUE]
                /\ Finally(h, FALSE, connected)
                /\ after_save_session(h, stamped, FinallyRaises(h, FALSE, connected))
                /\ UNCHANGED pending
             \/ \* cursor.execute() raises
                /\ fault' = [fault EXCEPT ![h] = @ \/ conn[h] # "sqlite"]
                /\ Finally(h, TRUE, connected)
                /\ after_save_session(h, stamped, FALSE)
                /\ UNCHANGED pending
             \/ \* the statement is executed in the handle's transaction
                /\ conn[h] = "mysql"
                /\ session_data' = [session_data EXCEPT ![h] = stamped]
                /\ pending' = [pending EXCEPT ![h] =
                                  [blob |-> json_dumps(session_data[h]),
                                   ts |-> CURRENT_TIMESTAMP(t),
                                   seen |-> commits[player_id[h]]]]
                /\ pc' = [pc EXCEPT ![h] = "save_commit"]
                /\ UNCHANGED <<handle_vars, result, arg_doc, fault>>
    /\ UNCHANGED <<provider_vars, boot_vars, call_vars, sink_vars, table>>
    /\ UNCHANGED <<path, committed, dispatched, commits, last_commit, saw_commit>>
    /\ UNCHANGED flag_skipped

\* save_session_execute that stamps only a document without last_modified
\* (session_data.setdefault("last_modified", time.time()))
save_session_execute_setdefault(h) ==
    /\ NoneDone
    /\ pc[h] = "save_execute"
    /\ \E t \in now..MaxTime, connected \in BOOLEAN :
       LET stamped == IF "last_modified" \in DOMAIN session_data[h]
                      THEN session_data[h]
                      ELSE Put(session_data[h], "last_modified", t) IN
          /\ now' = t
          /\ \/ \* conn.cursor() raises
                /\ fault' = [fault EXCEPT ![h] = TRUE]
                /\ Finally(h, FALSE, connected)
                /\ after_save_session(h, stamped, FinallyRaises(h, FALSE, connected))
                /\ UNCHANGED pending
             \/ \* cursor.execute() raises
                /\ fault' = [fault EXCEPT ![h] = @ \/ conn[h] # "sqlite"]
                /\ Finally(h, TRUE, connected)
                /\ after_save_session(h, stamped, FALSE)
                /\ UNCHANGED pending
             \/ \* the statement is executed in the handle's transaction
                /\ conn[h] = "mysql"
                /\ session_data' = [session_data EXCEPT ![h] = stamped]
                /\ pending' = [pending EXCEPT ![h] =
                                  [blob |-> json_dumps(stamped),
                                   ts |-> CURRENT_TIMESTAMP(t),
                                   seen |-> commits[player_id[h]]]]
                /\ pc' = [pc EXCEPT ![h] = "save_commit"]
                /\ UNCHANGED <<handle_vars, result, arg_doc, fault>>
    /\ UNCHANGED <<provider_vars, boot_vars, call_vars, sink_vars, table>>
    /\ UNCHANGED <<path, committed, dispatched, commits, last_commit, saw_commit>>
    /\ UNCHANGED flag_skipped

\* lines 55-65: the stamp, json.dumps, the cursor and the upsert statement
\* (a syntax error for sqlite3); an exception goes to `except` and
\* `finally`.  The row's last_modified column is set by the backend when the
\* statement is executed.
save_session_execute(h) ==
    /\ NoneDone
    /\ pc[h] = "save_execute"
    /\ \E t \in now..MaxTime, connected \in BOOLEAN :
       LET stamped == Put(session_data[h], "last_modified", t) IN
          /\ now' = t
          /\ \/ \* conn.cursor() raises
                /\ fault' = [fault EXCEPT ![h] = TRUE]
                /\ Finally(h, FALSE, connected)
                /\ after_save_session(h, stamped, FinallyRaises(h, FALSE, connected))
                /\ UNCHANGED pending
             \/ \* cursor.execute() raises
                /\ fault' = [fault EXCEPT ![h] = @ \/ conn[h] # "sqlite"]
                /\ Finally(h, TRUE, connected)
                /\ after_save_session(h, stamped, FALSE)
                /\ UNCHANGED pending
             \/ \* the statement is executed in the handle's transaction
                /\ conn[h] = "mysql"
                /\ session_data' = [session_data EXCEPT ![h] = stamped]
                /\ pending' = [pending EXCEPT ![h] =
                                  [blob |-> json_dumps(stamped),
                                   ts |-> CURRENT_TIMESTAMP(t),
                                   seen |-> commits[player_id[h]]]]
                /\ pc' = [pc EXCEPT ![h] = "save_commit"]
                /\ UNCHANGED <<handle_vars, result, arg_doc, fault>>
    /\ UNCHANGED <<provider_vars, boot_vars, call_vars, sink_vars, table>>
    /\ UNCHANGED <<path, committed, dispatched, commits, last_commit, saw_commit>>
    /\ UNCHANGED flag_skipped

\* The document of a save committed to h's player after h read the row, for
\* an operation that saves what it read (None if there is none)
LostSince(h) ==
    IF /\ op[h] \in {"flag_player_for_punishment", "create_or_get_session"}
       /\ path[h] \in {"no_row", "empty_blob", "ok", "error_decode"}
       /\ saw_commit[h] # last_commit[player_id[h]]
    THEN [doc |-> last_commit[player_id[h]].arg]
    ELSE None

\* save_session_commit whose failure does not leave the try block: the
\* dispatch follows a commit that raised
save_session_commit_dispatch_anyway(h) ==
    /\ NoneDone
    /\ pc[h] = "save_commit"
    /\ \/ /\ table' = Upsert(table, player_id[h], pending[h].blob, pending[h].ts)
          /\ committed' = [committed EXCEPT ![h] = TRUE]
          /\ commits' = [commits EXCEPT ![player_id[h]] = @ + 1]
          /\ last_commit' = [last_commit EXCEPT ![player_id[h]] =
                                [op |-> op[h], arg |-> arg_doc[h],
                                 prev |-> read_session(table, player_id[h]).path,
                                 lost |-> LostSince(h)]]
       \/ UNCHANGED <<table, committed, commits, last_commit>>
    /\ pc' = [pc EXCEPT ![h] = "save_dispatch"]
    /\ UNCHANGED <<handle_vars, pending, result, session_data, arg_doc>>
    /\ UNCHANGED <<provider_vars, boot_vars, call_vars, sink_vars, now>>
    /\ UNCHANGED <<path, dispatched, saw_commit, fault, flag_skipped>>

\* save_session_commit without the conn.commit() of line 66: the statement
\* is rolled back when the handle is closed
save_session_commit_rolled_back(h) ==
    /\ NoneDone
    /\ pc[h] = "save_commit"
    /\ \/ /\ table' = table
          /\ committed' = [committed EXCEPT ![h] = TRUE]
          /\ commits' = [commits EXCEPT ![player_id[h]] = @ + 1]
          /\ last_commit' = [last_commit EXCEPT ![player_id[h]] =
                                [op |-> op[h], arg |-> arg_doc[h],
                                 prev |-> read_session(table, player_id[h]).path,
                                 lost |-> LostSince(h)]]
          /\ pc' = [pc EXCEPT ![h] = "save_dispatch"]
          /\ UNCHANGED <<handle_vars, pending, result, session_data, arg_doc>>
          /\ UNCHANGED fault
       \/ \E connected \in BOOLEAN :
          /\ fault' = [fault EXCEPT ![h] = TRUE]
          /\ Finally(h, TRUE, connected)
          /\ after_save_session(h, session_data[h], FALSE)
          /\ pending' = [pending EXCEPT ![h] = NoPending]
          /\ UNCHANGED <<table, committed, commits, last_commit>>
    /\ UNCHANGED <<provider_vars, boot_vars, call_vars, sink_vars, now>>
    /\ UNCHANGED <<path, dispatched, saw_commit, flag_skipped>>

\* line 66: conn.commit() makes the upsert visible; if it raises, `except`
\* and `finally` follow and closing the handle discards the statement
save_session_commit(h) ==
    /\ NoneDone
    /\ pc[h] = "save_commit"
    /\ \/ /\ table' = Upsert(table, player_id[h], pending[h].blob, pending[h].ts)
          /\ committed' = [committed EXCEPT ![h] = TRUE]
          /\ commits' = [commits EXCEPT ![player_id[h]] = @ + 1]
          /\ last_commit' = [last_commit EXCEPT ![player_id[h]] =
                                [op |-> op[h], arg |-> arg_doc[h],
                                 prev |-> read_session(table, player_id[h]).path,
                                 lost |-> LostSince(h)]]
          /\ pc' = [pc EXCEPT ![h] = "save_dispatch"]
          /\ UNCHANGED <<handle_vars, pending, result, session_data, arg_doc>>
          /\ UNCHANGED fault
       \/ \E connected \in BOOLEAN :
          /\ fault' = [fault EXCEPT ![h] = TRUE]
          /\ Finally(h, TRUE, connected)
          /\ after_save_session(h, session_data[h], FALSE)
          /\ pending' = [pending EXCEPT ![h] = NoPending]
          /\ UNCHANGED <<table, committed, commits, last_commit>>
    /\ UNCHANGED <<provider_vars, boot_vars, call_vars, sink_vars, now>>
    /\ UNCHANGED <<path, dispatched, saw_commit, flag_skipped>>

\* save_session_dispatch that gathers the websocket task only
save_session_dispatch_ws_only(h) ==
    /\ NoneDone
    /\ pc[h] = "save_dispatch"
    /\ ws_sent' = [ws_sent EXCEPT ![player_id[h]] = @ + 1]
    /\ UNCHANGED live_sent
    /\ dispatched' = [dispatched EXCEPT ![h] = TRUE]
    /\ \E connected \in BOOLEAN : Finally(h, TRUE, connected)
    /\ after_save_session(h, session_data[h], FALSE)
    /\ pending' = [pending EXCEPT ![h] = NoPending]
    /\ UNCHANGED <<provider_vars, boot_vars, call_vars, table, now>>
    /\ UNCHANGED <<path, committed, commits, last_commit, saw_commit>>
    /\ UNCHANGED <<fault, flag_skipped>>

\* lines 68-83: the two sink coroutines are created and handed to
\* asyncio.gather, which is not awaited; then `finally` and the return
save_session_dispatch(h) ==
    /\ NoneDone
    /\ pc[h] = "save_dispatch"
    /\ ws_sent' = [ws_sent EXCEPT ![player_id[h]] = @ + 1]
    /\ live_sent' = [live_sent EXCEPT ![player_id[h]] = @ + 1]
    /\ dispatched' = [dispatched EXCEPT ![h] = TRUE]
    /\ \E connected \in BOOLEAN : Finally(h, TRUE, connected)
    /\ after_save_session(h, session_data[h], FALSE)
    /\ pending' = [pending EXCEPT ![h] = NoPending]
    /\ UNCHANGED <<provider_vars, boot_vars, call_vars, table, now>>
    /\ UNCHANGED <<path, committed, commits, last_commit, saw_commit>>
    /\ UNCHANGED <<fault, flag_skipped>>

(* ---------------------- get_most_recent_sessions ----------------------- *)

\* security.encrypt_player_id: an injective token
encrypt_player_id(p) == <<"enc", p>>

\* line 121: first and last character around an ellipsis, ids of at most
\* two characters unchanged
display_name(p) ==
    LET cs == PlayerChars(p) IN
    IF Len(cs) > 2 THEN <<cs[1], "...", cs[Len(cs)]>> ELSE cs

\* the orders in which ORDER BY last_modified DESC can deliver the rows
\* (rows with equal timestamps come in any order)
RowOrders(tbl) ==
    {s \in [1..Cardinality(tbl) -> tbl] :
        /\ \A i, j \in 1..Cardinality(tbl) : i # j => s[i] # s[j]
        /\ \A i, j \in 1..Cardinality(tbl) :
              i < j => s[i].last_modified >= s[j].last_modified}

\* LIMIT %s
Limit(rows, limit) == SubSeq(rows, 1, IF limit < Len(rows) THEN limit ELSE Len(rows))

\* json.loads(str(row['session_data'])) succeeds on every fetched row
AllDecode(rows) == \A i \in 1..Len(rows) : json_ok(rows[i].session_data)

\* lines 115-128: one summary per fetched row
Summaries(rows) ==
    [i \in 1..Len(rows) |->
        [player_id |-> encrypt_player_id(rows[i].player_id),
         display_name |-> display_name(rows[i].player_id),
         last_modified |-> DictGet(json_loads(rows[i].session_data),
                                   "last_modified", 0)]]

\* lines 104-105: conn = db.get_db_connection(); if not conn: return []
recent_acquire(h) ==
    /\ NoneDone
    /\ pc[h] = "recent_acquire"
    /\ \E c \in get_db_connection :
          /\ Acquire(h, c)
          /\ fault' = [fault EXCEPT ![h] = (c = "None")]
          /\ IF c = "None"
             THEN /\ path' = [path EXCEPT ![h] = "no_handle"]
                  /\ Done(h, List(<<>>))
             ELSE /\ pc' = [pc EXCEPT ![h] = "recent_query"]
                  /\ UNCHANGED <<path, result, session_data, arg_doc>>
    /\ UNCHANGED <<provider_vars, boot_vars, call_vars, sink_vars, table, now, pending>>
    /\ UNCHANGED <<committed, dispatched, commits, last_commit, saw_commit>>
    /\ UNCHANGED flag_skipped

\* lines 107-137: any exception, a row that does not decode included, is
\* logged and turned into []; then `finally`
recent_query(h) ==
    /\ NoneDone
    /\ pc[h] = "recent_query"
    /\ \E connected \in BOOLEAN :
       \/ \* conn.cursor() raises
          /\ path' = [path EXCEPT ![h] = "error_cursor"]
          /\ fault' = [fault EXCEPT ![h] = TRUE]
          /\ Finally(h, FALSE, connected)
          /\ Done(h, IF FinallyRaises(h, FALSE, connected)
                     THEN Raised ELSE List(<<>>))
       \/ \* cursor.execute() raises
          /\ path' = [path EXCEPT ![h] =
                         IF conn[h] = "sqlite" THEN "error_syntax" ELSE "error_query"]
          /\ fault' = [fault EXCEPT ![h] = (conn[h] # "sqlite")]
          /\ Finally(h, TRUE, connected)
          /\ Done(h, List(<<>>))
       \/ \* the query succeeds
          /\ conn[h] = "mysql"
          /\ Finally(h, TRUE, connected)
          /\ UNCHANGED fault
          /\ \E order \in RowOrders(table) :
                LET rows == Limit(order, n_arg[h]) IN
                /\ path' = [path EXCEPT ![h] =
                               IF AllDecode(rows) THEN "ok" ELSE "error_decode"]
                /\ Done(h, IF AllDecode(rows) THEN List(Summaries(rows))
                           ELSE List(<<>>))
    /\ UNCHANGED <<provider_vars, boot_vars, call_vars, sink_vars, table, now, pending>>
    /\ UNCHANGED <<committed, dispatched, commits, last_commit, saw_commit>>
    /\ UNCHANGED flag_skipped

(* ------------------------- the operations' calls ----------------------- *)

\* a handler that is idle starts the operation `name` on the document d
Call(h, name, p, n, d, start) ==
    /\ NoneDone
    /\ pc[h] = "idle"
    /\ ops < MaxOps
    /\ ops' = ops + 1
    /\ op' = [op EXCEPT ![h] = name]
    /\ player_id' = [player_id EXCEPT ![h] = p]
    /\ n_arg' = [n_arg EXCEPT ![h] = n]
    /\ session_data' = [session_data EXCEPT ![h] = d]
    /\ arg_doc' = [arg_doc EXCEPT ![h] = d]
    /\ pc' = [pc EXCEPT ![h] = start]
    /\ UNCHANGED <<provider_vars, boot_vars, handle_vars, sink_vars, table, now, pending>>
    /\ UNCHANGED <<result, path, committed, dispatched, commits, last_commit>>
    /\ UNCHANGED <<saw_commit, fault, flag_skipped>>

call_get_session(h) ==
    \E p \in Players :
        /\ Call(h, "get_session", p, 0, EmptyDoc, "get_acquire")
        /\ UNCHANGED punishment

call_save_session(h) ==
    \E p \in Players, d \in CallerDocs :
        /\ Call(h, "save_session", p, 0, d, "save_acquire")
        /\ UNCHANGED punishment

call_create_or_get_session(h) ==
    \E p \in Players :
        /\ Call(h, "create_or_get_session", p, 0, EmptyDoc, "get_acquire")
        /\ UNCHANGED punishment

call_get_last_n_inputs(h) ==
    \E p \in Players, n \in 0..MaxN :
        /\ Call(h, "get_last_n_inputs", p, n, EmptyDoc, "get_acquire")
        /\ UNCHANGED punishment

call_get_most_recent_sessions(h) ==
    \E limit \in 0..MaxLimit :
        /\ Call(h, "get_most_recent_sessions", "ab", limit, EmptyDoc, "recent_acquire")
        /\ UNCHANGED punishment

\* clear_session: await save_session(player_id, {})
call_clear_session(h) ==
    \E p \in Players :
        /\ Call(h, "clear_session", p, 0, EmptyDoc, "save_acquire")
        /\ UNCHANGED punishment

call_flag_player_for_punishment(h) ==
    \E p \in Players, level \in Levels, reason \in Reasons :
        /\ Call(h, "flag_player_for_punishment", p, 0, EmptyDoc, "get_acquire")
        /\ punishment' = [punishment EXCEPT ![h] = [level |-> level, reason |-> reason]]

\* The operation's result goes to the request handler's caller and the
\* handler's frame is dropped.
return_to_caller(h) ==
    /\ pc[h] = "done"
    /\ pc' = [pc EXCEPT ![h] = "idle"]
    /\ op' = [op EXCEPT ![h] = "none"]
    /\ player_id' = [player_id EXCEPT ![h] = "ab"]
    /\ n_arg' = [n_arg EXCEPT ![h] = 0]
    /\ punishment' = [punishment EXCEPT ![h] = NoPunishment]
    /\ result' = [result EXCEPT ![h] = None]
    /\ path' = [path EXCEPT ![h] = "none"]
    /\ committed' = [committed EXCEPT ![h] = FALSE]
    /\ dispatched' = [dispatched EXCEPT ![h] = FALSE]
    /\ saw_commit' = [saw_commit EXCEPT ![h] = NoCommit]
    /\ fault' = [fault EXCEPT ![h] = FALSE]
    /\ UNCHANGED <<provider_vars, boot_vars, handle_vars, sink_vars, table, now, ops, pending>>
    /\ UNCHANGED <<session_data, arg_doc, commits, last_commit, flag_skipped>>

Next ==
    \/ initialize_db_pool
    \/ \E h \in Handlers :
          \/ call_get_session(h)
          \/ call_save_session(h)
          \/ call_create_or_get_session(h)
          \/ call_get_last_n_inputs(h)
          \/ call_get_most_recent_sessions(h)
          \/ call_clear_session(h)
          \/ call_flag_player_for_punishment(h)
          \/ get_session_acquire(h)
          \/ get_session_query(h)
          \/ save_session_acquire(h)
          \/ save_session_execute(h)
          \/ save_session_commit(h)
          \/ save_session_dispatch(h)
          \/ recent_acquire(h)
          \/ recent_query(h)
          \/ return_to_caller(h)

Spec == Init /\ [][Next]_vars

(* ------------------------ the pool under load ------------------------- *)

\* The pool was built at startup; request handlers other than the ones
\* followed here borrow handles from it and give them back.
PoolInit ==
    /\ scheme = "mysql"
    /\ db_pool = "pool"
    /\ table \in InitTables
    /\ Idle
    /\ init_db = NotRunning
    /\ table_exists = TRUE

\* another handler's db_pool.get_connection() while a handle is free
other_handler_acquire ==
    /\ NoneDone
    /\ pool_lent + others_lent < pool_size
    /\ others_lent' = others_lent + 1
    /\ UNCHANGED <<pool_lent, sqlite_open, conn>>
    /\ UNCHANGED <<provider_vars, boot_vars, call_vars, sink_vars, hist_vars>>
    /\ UNCHANGED <<table, now, pc, session_data, pending, result>>

\* another handler's conn.close(): the handle goes back to the pool
other_handler_release ==
    /\ NoneDone
    /\ others_lent > 0
    /\ others_lent' = others_lent - 1
    /\ UNCHANGED <<pool_lent, sqlite_open, conn>>
    /\ UNCHANGED <<provider_vars, boot_vars, call_vars, sink_vars, hist_vars>>
    /\ UNCHANGED <<table, now, pc, session_data, pending, result>>

PoolNext ==
    \/ other_handler_acquire
    \/ other_handler_release
    \/ \E h \in Handlers :
          \/ call_get_session(h)
          \/ call_save_session(h)
          \/ get_session_acquire(h)
          \/ get_session_query(h)
          \/ save_session_acquire(h)
          \/ save_session_execute(h)
          \/ save_session_commit(h)
          \/ save_session_dispatch(h)
          \/ return_to_caller(h)

SpecPool == PoolInit /\ [][PoolNext]_vars

(* --------------------- scripts/init_db.py bootstrap -------------------- *)

\* what initialize_database never touches: the store's state and the rows
store_vars == <<provider_vars, handle_vars, call_vars, sink_vars, hist_vars,
                table, now, pc, session_data, pending, result>>

\* The bootstrap runs before the store is used, on a database where
\* game_sessions may exist already (with the rows of an earlier run).
InitDbInit ==
    /\ scheme \in Schemes
    /\ table_exists \in BOOLEAN
    /\ table \in (IF table_exists THEN InitTables ELSE {{}})
    /\ db_pool = "None"
    /\ Idle
    /\ init_db = [NotRunning EXCEPT !.pc = "config"]

\* lines 33-38 with get_db_config_from_env (lines 10-26): ValueError when
\* DATABASE_URL is not set or its scheme is not mysql, caught at line 72
initialize_database_config ==
    /\ init_db.pc = "config"
    /\ \E url_set \in BOOLEAN :
          init_db' = [init_db EXCEPT !.pc =
                         IF url_set /\ scheme = "mysql" THEN "connect" ELSE "finally"]
    /\ UNCHANGED <<table_exists, store_vars>>

\* initialize_database_connect without the `break` of line 47: the loop
\* goes on connecting after a success
initialize_database_connect_no_break ==
    /\ init_db.pc = "connect"
    /\ init_db.attempt < max_retries
    /\ \/ init_db' = [init_db EXCEPT !.conn = "open",
                                      !.connects = @ + 1,
                                      !.attempt = @ + 1,
                                      !.pc = IF init_db.attempt + 1 = max_retries
                                             THEN "connected" ELSE "connect"]
       \/ init_db' = [init_db EXCEPT !.connects = @ + 1,
                                      !.attempt = @ + 1,
                                      !.pc = IF init_db.attempt + 1 = max_retries
                                             THEN "finally" ELSE "connect"]
    /\ UNCHANGED <<table_exists, store_vars>>

\* lines 43-52, one iteration of `for attempt in range(max_retries)`:
\* mysql.connector.connect succeeds and the loop breaks, or it raises and
\* the loop sleeps and goes on, re-raising on the last attempt (line 51,
\* caught at line 72)
initialize_database_connect ==
    /\ init_db.pc = "connect"
    /\ init_db.attempt < max_retries
    /\ \/ init_db' = [init_db EXCEPT !.conn = "open",
                                      !.connects = @ + 1,
                                      !.pc = "connected"]
       \/ init_db' = [init_db EXCEPT !.connects = @ + 1,
                                      !.attempt = @ + 1,
                                      !.pc = IF init_db.attempt + 1 = max_retries
                                             THEN "finally" ELSE "connect"]
    /\ UNCHANGED <<table_exists, store_vars>>

\* lines 54-55 and 69-70: `if conn and conn.is_connected()`, then the
\* cursor; a connection that was lost goes to the else branch;
\* conn.cursor() may raise mysql.connector.Error
initialize_database_cursor ==
    /\ init_db.pc = "connected"
    /\ \/ init_db' = [init_db EXCEPT !.cursor = "open", !.pc = "create"]
       \/ init_db' = [init_db EXCEPT !.pc = "finally"]
       \/ init_db' = [init_db EXCEPT !.conn = "lost", !.pc = "finally"]
    /\ UNCHANGED <<table_exists, store_vars>>

\* lines 57-66: CREATE TABLE IF NOT EXISTS creates the table or leaves an
\* existing one with its rows; the statement may raise
initialize_database_create ==
    /\ init_db.pc = "create"
    /\ \/ /\ init_db' = [init_db EXCEPT !.executed = TRUE, !.pc = "commit"]
          /\ table_exists' = TRUE
       \/ /\ init_db' = [init_db EXCEPT !.pc = "finally"]
          /\ UNCHANGED table_exists
    /\ UNCHANGED store_vars

\* lines 67-68: conn.commit(), which may raise
initialize_database_commit ==
    /\ init_db.pc = "commit"
    /\ init_db' = [init_db EXCEPT !.pc = "finally"]
    /\ UNCHANGED <<table_exists, store_vars>>

\* lines 74-79: the cursor is closed if there is one, the connection if
\* there is one and it is_connected(); then the function returns
initialize_database_finally ==
    /\ init_db.pc = "finally"
    /\ \E connected \in BOOLEAN :
          init_db' = [init_db EXCEPT
                         !.cursor = IF @ = "open" THEN "closed" ELSE @,
                         !.conn = IF @ = "open"
                                  THEN (IF connected THEN "closed" ELSE "lost")
                                  ELSE @,
                         !.pc = "returned"]
    /\ UNCHANGED <<table_exists, store_vars>>

InitDbNext ==
    \/ initialize_database_config
    \/ initialize_database_connect
    \/ initialize_database_cursor
    \/ initialize_database_create
    \/ initialize_database_commit
    \/ initialize_database_finally

\* The script is one sequential process: it goes on as long as it has a
\* step to take (connect and sleep return).
SpecInitDb == InitDbInit /\ [][InitDbNext]_vars /\ WF_vars(InitDbNext)

(* ----------------------------- properties ------------------------------ *)

\* the query of h's get_session ran: a handle was lent, the cursor was
\* created and the SELECT was executed
QueryRan(h) == path[h] \in {"no_row", "empty_blob", "ok", "error_decode"}

\* r and d agree on every key but last_modified
EqualButLastModified(r, d) ==
    /\ (DOMAIN r) \ {"last_modified"} = (DOMAIN d) \ {"last_modified"}
    /\ \A k \in (DOMAIN d) \ {"last_modified"} : r[k] = d[k]

\* no operation is in progress
Quiescent == \A h \in Handlers : pc[h] \in {"idle", "done"}

\* the document has last_modified and nothing else
OnlyLastModified(d) == DOMAIN d = {"last_modified"}

\* C1: a get_session(id) whose query ran and that follows a committed
\* save_session(id, D), no other write to id in between, returns a document
\* that equals D on every key but last_modified, and has a last_modified
\* read from the clock (a caller-supplied one is overwritten).
C1_SaveThenGet ==
    \A h \in Handlers :
        (/\ pc[h] = "done"
         /\ op[h] = "get_session"
         /\ QueryRan(h)
         /\ saw_commit[h].op # "none")
        => /\ result[h] # None
           /\ "last_modified" \in DOMAIN result[h]
           /\ result[h]["last_modified"] \in 1..MaxTime
           /\ EqualButLastModified(result[h], saw_commit[h].arg)

C1_Witness ==
    \E h \in Handlers :
        /\ pc[h] = "done"
        /\ op[h] = "get_session"
        /\ path[h] = "ok"
        /\ saw_commit[h].op = "save_session"
        /\ saw_commit[h].arg = [k |-> 2, last_modified |-> 0]

\* C2: a dispatch to the sinks is a step of a save_session that has
\* committed: none precedes the commit, and a save_session that got no
\* handle or whose upsert or commit raised never dispatches.
C2_DispatchOnlyAfterCommit ==
    /\ [][\A p \in Players :
            (ws_sent'[p] # ws_sent[p] \/ live_sent'[p] # live_sent[p])
            => \E h \in Handlers :
                  /\ player_id[h] = p
                  /\ pc[h] = "save_dispatch"
                  /\ pc'[h] # pc[h]
                  /\ committed[h]]_vars
    /\ [](\A h \in Handlers : dispatched[h] => committed[h])

C2_Witness ==
    \E h \in Handlers : pc[h] = "done" /\ committed[h] /\ dispatched[h]

\* C3: for every player each sink has been given at most as many full_state
\* dispatches as there are committed saves, and exactly as many once no
\* operation is in progress.
C3_DispatchOncePerSave ==
    \A p \in Players :
        /\ ws_sent[p] <= commits[p]
        /\ live_sent[p] <= commits[p]
        /\ Quiescent => (ws_sent[p] = commits[p] /\ live_sent[p] = commits[p])

C3_Witness ==
    /\ Quiescent
    /\ \E p \in Players : commits[p] = 2 /\ ws_sent[p] = 2 /\ live_sent[p] = 2

\* C4: every handle that was lent or opened is held by an operation in
\* progress; when no operation is in progress none is out.
C4_HandlesReleased ==
    /\ pool_lent = Cardinality({h \in Handlers : conn[h] = "mysql"})
    /\ sqlite_open = Cardinality({h \in Handlers : conn[h] = "sqlite"})
    /\ Quiescent => (pool_lent = 0 /\ sqlite_open = 0)

\* C5: the row of a player changes only by the commit of a save_session to
\* that player, which leaves there the document that save wrote; so the
\* document stored for a player is the one of its last committed save,
\* whatever saves to other players run in between.
C5_DistinctIdsDoNotInterfere ==
    /\ [][\A p \in Players :
            RowsOf(table', p) # RowsOf(table, p)
            => \E h \in Handlers :
                  /\ player_id[h] = p
                  /\ pc[h] = "save_commit"
                  /\ pc'[h] = "save_dispatch"
                  /\ RowsOf(table', p) =
                        {[player_id |-> p,
                          session_data |-> json_dumps(session_data[h]),
                          last_modified |-> pending[h].ts]}]_vars
    /\ [](\A p \in Players :
            last_commit[p].op # "none"
            => /\ read_session(table, p).path = "ok"
               /\ EqualButLastModified(read_session(table, p).value,
                                       last_commit[p].arg))

C5_Witness ==
    \E h1, h2 \in Handlers :
        /\ player_id[h1] # player_id[h2]
        /\ pc[h1] = "save_dispatch"
        /\ pc[h2] = "save_dispatch"

\* C6: the table never holds two rows for one player, and the commit of a
\* save to a player that has a row leaves the number of rows unchanged.
C6_OneRowPerPlayer ==
    /\ [](\A r1, r2 \in table : r1.player_id = r2.player_id => r1 = r2)
    /\ [][\A h \in Handlers :
            (/\ pc[h] = "save_commit"
             /\ pc'[h] = "save_dispatch"
             /\ HasRow(table, player_id[h]))
            => Cardinality(table') = Cardinality(table)]_vars

C6_Witness ==
    \E h1, h2 \in Handlers :
        /\ h1 # h2
        /\ player_id[h1] = player_id[h2]
        /\ pc[h1] = "save_dispatch"
        /\ pc[h2] = "save_dispatch"
        /\ Cardinality(RowsOf(table, player_id[h1])) = 1

\* C7: a get_session whose query ran returns None exactly when there is no
\* row or the row's blob is NULL or empty; on a blob that does not decode
\* it does not return None.
C7_AbsentOnlyWithoutDocument ==
    \A h \in Handlers :
        (pc[h] = "done" /\ op[h] = "get_session" /\ QueryRan(h))
        => (result[h] = None <=> path[h] \in {"no_row", "empty_blob"})

\* C8: a create_or_get_session that found no row and whose save committed
\* returns a document whose only key is last_modified; that document is
\* stored, and a get_session that follows it returns a document whose only
\* key is last_modified.
C8_CreateOnFreshId ==
    /\ \A h \in Handlers :
          (/\ pc[h] = "done"
           /\ op[h] = "create_or_get_session"
           /\ path[h] = "no_row"
           /\ committed[h])
          => /\ OnlyLastModified(result[h])
             /\ last_commit[player_id[h]].op = "create_or_get_session"
                => /\ read_session(table, player_id[h]).path = "ok"
                   /\ OnlyLastModified(read_session(table, player_id[h]).value)
    /\ \A g \in Handlers :
          (/\ pc[g] = "done"
           /\ op[g] = "get_session"
           /\ QueryRan(g)
           /\ saw_commit[g].op = "create_or_get_session")
          => OnlyLastModified(result[g])

C8_Witness ==
    \E h \in Handlers :
        /\ pc[h] = "done"
        /\ op[h] = "create_or_get_session"
        /\ path[h] = "no_row"
        /\ committed[h]
        /\ dispatched[h]
        /\ last_commit[player_id[h]].op = "create_or_get_session"

\* C9: a clear_session that committed leaves the player's row in place with
\* a document whose only key is last_modified, and a get_session that
\* follows it returns such a document, never None.
C9_ClearKeepsRow ==
    /\ \A h \in Handlers :
          (/\ pc[h] = "done"
           /\ op[h] = "clear_session"
           /\ committed[h]
           /\ last_commit[player_id[h]].op = "clear_session")
          => /\ HasRow(table, player_id[h])
             /\ read_session(table, player_id[h]).path = "ok"
             /\ OnlyLastModified(read_session(table, player_id[h]).value)
    /\ \A g \in Handlers :
          (/\ pc[g] = "done"
           /\ op[g] = "get_session"
           /\ QueryRan(g)
           /\ saw_commit[g].op = "clear_session")
          => /\ result[g] # None
             /\ OnlyLastModified(result[g])

C9_Witness ==
    \E g \in Handlers :
        /\ pc[g] = "done"
        /\ op[g] = "get_session"
        /\ path[g] = "ok"
        /\ saw_commit[g].op = "clear_session"
        /\ saw_commit[g].prev = "ok"

\* the last n entries of seq, in their order
LastN(seq, n) ==
    SubSeq(seq, Len(seq) - (IF n < Len(seq) THEN n ELSE Len(seq)) + 1, Len(seq))

\* the user inputs in the session stored for p ([] without a session)
StoredInputs(p) ==
    IF read_session(table, p).path = "ok"
    THEN UserContents(DictGet(read_session(table, p).value, "internal_history", <<>>))
    ELSE <<>>

\* C10: get_last_n_inputs(id, n) whose query ran returns at most n entries:
\* the contents of the last n user entries of the stored history, in order.
C10_LastNInputs ==
    \A h \in Handlers :
        (pc[h] = "done" /\ op[h] = "get_last_n_inputs" /\ QueryRan(h))
        => /\ Len(result[h].list) <= n_arg[h]
           /\ result[h].list = LastN(StoredInputs(player_id[h]), n_arg[h])

\* the positions of save_session
SavePcs == {"save_acquire", "save_execute", "save_commit", "save_dispatch"}

\* C11: a flag_player_for_punishment whose read finds no stored session (no
\* row, or a row with a NULL or empty blob) returns in that step without
\* changing the table or dispatching to a sink; a flag is in save_session
\* only after it read a session; and a get_session that reads the row of a
\* player for whom a flag found no session, no save having committed to
\* that player, returns None.
C11_FlagOnAbsentWritesNothing ==
    /\ [][\A h \in Handlers :
            (/\ op[h] = "flag_player_for_punishment"
             /\ pc[h] = "get_query"
             /\ path'[h] \in {"no_row", "empty_blob"})
            => /\ pc'[h] = "done"
               /\ result'[h] = None
               /\ table' = table
               /\ ws_sent' = ws_sent
               /\ live_sent' = live_sent
               /\ commits' = commits]_vars
    /\ [](\A h \in Handlers :
            (op[h] = "flag_player_for_punishment" /\ pc[h] \in SavePcs)
            => path[h] = "ok")
    /\ [](\A g \in Handlers :
            (/\ pc[g] = "done"
             /\ op[g] = "get_session"
             /\ QueryRan(g)
             /\ flag_skipped[player_id[g]]
             /\ commits[player_id[g]] = 0)
            => result[g] = None)

C11_Witness ==
    \E g \in Handlers :
        /\ pc[g] = "done"
        /\ op[g] = "get_session"
        /\ path[g] = "no_row"
        /\ flag_skipped[player_id[g]]
        /\ commits[player_id[g]] = 0
        /\ result[g] = None

\* the query of h's get_most_recent_sessions ran
ListingRan(h) == path[h] \in {"ok", "error_decode"}

\* the time at which the session of row r was saved: save_session stamps it
\* into the document
SaveTime(r) == DictGet(json_loads(r.session_data), "last_modified", 0)

\* every row holds a saved session and no two were saved at the same time
SavedAtIncreasingTimes(tbl) ==
    /\ \A r \in tbl : json_ok(r.session_data)
    /\ \A r1, r2 \in tbl : r1 # r2 => SaveTime(r1) # SaveTime(r2)

\* the rows from the most recently saved to the least recently saved
MostRecentFirst(tbl) ==
    CHOOSE s \in [1..Cardinality(tbl) -> tbl] :
        \A i, j \in 1..Cardinality(tbl) : i < j => SaveTime(s[i]) > SaveTime(s[j])

\* C12: over sessions saved at increasing times, a get_most_recent_sessions
\* whose query ran returns min(limit, number of rows) summaries: those of
\* the most recently saved sessions, the most recent first.
C12_MostRecentSessions ==
    \A h \in Handlers :
        (/\ pc[h] = "done"
         /\ op[h] = "get_most_recent_sessions"
         /\ ListingRan(h)
         /\ SavedAtIncreasingTimes(table))
        => /\ Len(result[h].list) =
                 (IF n_arg[h] < Cardinality(table) THEN n_arg[h] ELSE Cardinality(table))
           /\ result[h].list = Summaries(Limit(MostRecentFirst(table), n_arg[h]))

\* C13: a save stamps its document with the clock's reading, whatever
\* last_modified the caller supplied, and the clock never goes back; a
\* commit leaves that stamp as the stored last_modified; and when no other
\* save to the player committed since the stamp was taken (a single writer
\* per player), the stored last_modified does not decrease.
C13_LastModifiedMonotone ==
    /\ [][\A h \in Handlers :
            (pc[h] = "save_execute" /\ pc'[h] = "save_commit")
            => /\ now' >= now
               /\ session_data'[h]["last_modified"] = now'
               /\ json_loads(pending'[h].blob)["last_modified"] = now']_vars
    /\ [][\A h \in Handlers :
            (pc[h] = "save_commit" /\ pc'[h] = "save_dispatch")
            => LET p   == player_id[h]
                   old == read_session(table, p)
                   new == read_session(table', p)
               IN  /\ new.path = "ok"
                   /\ new.value["last_modified"] = session_data[h]["last_modified"]
                   /\ (/\ pending[h].seen = commits[p]
                       /\ old.path = "ok"
                       /\ "last_modified" \in DOMAIN old.value)
                      => new.value["last_modified"] >= old.value["last_modified"]]_vars

C13_Witness ==
    \E h \in Handlers :
        /\ pc[h] = "save_dispatch"
        /\ committed[h]
        /\ pending[h].seen = 1
        /\ commits[player_id[h]] = 2
        /\ "last_modified" \in DOMAIN arg_doc[h]
        /\ arg_doc[h]["last_modified"] # session_data[h]["last_modified"]

\* the pooled backend is selected and its pool was not built
PoolUnavailable == scheme = "mysql" /\ db_pool = "None"

AcquirePcs == {"get_acquire", "save_acquire", "recent_acquire"}

\* C14: while the pooled backend has no pool, get_db_connection yields no
\* handle, and every operation that asks for one ends there: nothing is lent,
\* the table and the sinks are unchanged, get_session returns None,
\* get_most_recent_sessions returns [], and save_session returns without
\* commit or dispatch.
C14_NoPoolNoOperation ==
    /\ [](PoolUnavailable => get_db_connection = {"None"})
    /\ [][\A h \in Handlers :
            (PoolUnavailable /\ pc[h] \in AcquirePcs /\ pc'[h] # pc[h])
            => /\ conn'[h] = "None"
               /\ pool_lent' = pool_lent
               /\ table' = table
               /\ ws_sent' = ws_sent
               /\ live_sent' = live_sent
               /\ (pc[h] = "get_acquire" /\ op[h] = "get_session")
                  => (pc'[h] = "done" /\ result'[h] = None)
               /\ pc[h] = "recent_acquire"
                  => (pc'[h] = "done" /\ result'[h] = List(<<>>))
               /\ pc[h] = "save_acquire"
                  => (pc'[h] = "done" /\ ~committed'[h] /\ ~dispatched'[h])]_vars

C14_Witness ==
    /\ PoolUnavailable
    /\ ops = 2
    /\ \E h \in Handlers :
          /\ pc[h] = "done"
          /\ op[h] = "save_session"
          /\ ~committed[h]
          /\ commits[player_id[h]] = 0

RECURSIVE Decodable(_)
\* the rows of a sequence whose blob decodes, in their order
Decodable(rows) ==
    IF rows = <<>> THEN <<>>
    ELSE IF json_ok(Head(rows).session_data)
         THEN <<Head(rows)>> \o Decodable(Tail(rows))
         ELSE Decodable(Tail(rows))

\* C15: a get_most_recent_sessions whose query ran returns the summaries of
\* the fetched rows that decode, in the order of the query: a row whose blob
\* does not decode is left out and the others are still returned.
C15_UndecodableRowSkipped ==
    \A h \in Handlers :
        (pc[h] = "done" /\ op[h] = "get_most_recent_sessions" /\ ListingRan(h))
        => \E order \in RowOrders(table) :
              result[h].list = Summaries(Decodable(Limit(order, n_arg[h])))

\* C16: initialize_database returns; it calls connect at most max_retries
\* times and never again once a connection is established; a run without
\* connection never executes the CREATE TABLE statement, and has made all
\* max_retries attempts if the configuration was valid; and on return the
\* connection it opened is not open any more.
C16_BootstrapTerminates ==
    /\ <>(init_db.pc = "returned")
    /\ [](init_db.connects <= max_retries)
    /\ [][init_db.conn # "None" => init_db'.connects = init_db.connects]_vars
    /\ [](init_db.executed => init_db.conn # "None")
    /\ []((init_db.connects = max_retries /\ init_db.conn = "None")
           => (init_db.pc \in {"finally", "returned"} /\ ~init_db.executed))
    /\ [](init_db.pc = "returned" => init_db.conn # "open")
    /\ [][table' = table]_vars

C16_Witness ==
    /\ init_db.pc = "returned"
    /\ init_db.connects = max_retries
    /\ init_db.conn = "None"
    /\ ~init_db.executed
    /\ ~table_exists

\* C17: when a save committed to the player between the read and the
\* commit of a flag_player_for_punishment, the flag's commit leaves the
\* document the flag read with its pending_punishment: whatever the save in
\* between changed is not in the stored document; and the committed save
\* and the committed flag both return None, no error.
C17_FlagLostUpdate ==
    /\ \A p \in Players :
          (/\ last_commit[p].op = "flag_player_for_punishment"
           /\ last_commit[p].lost # None)
          => LET stored == read_session(table, p)
                 mine   == last_commit[p].arg
                 D      == last_commit[p].lost.doc
             IN  /\ stored.path = "ok"
                 /\ "pending_punishment" \in DOMAIN stored.value
                 /\ EqualButLastModified(stored.value, mine)
                 /\ \A k \in (DOMAIN D) \ {"last_modified"} :
                       (k \notin DOMAIN mine \/ mine[k] # D[k])
                       => (k \notin DOMAIN stored.value \/ stored.value[k] # D[k])
    /\ \A h \in Handlers :
          (/\ pc[h] = "done"
           /\ committed[h]
           /\ op[h] \in {"save_session", "flag_player_for_punishment"})
          => result[h] = None

C17_Witness ==
    /\ Quiescent
    /\ \E p \in Players :
          /\ commits[p] = 2
          /\ last_commit[p].op = "flag_player_for_punishment"
          /\ last_commit[p].lost = [doc |-> [k |-> 1]]
          /\ read_session(table, p).path = "ok"
          /\ "k" \notin DOMAIN read_session(table, p).value
          /\ "internal_history" \in DOMAIN read_session(table, p).value

\* C18: create_or_get_session on a player whose row holds a document, no
\* other save committing to that player, never commits over that document:
\* when its read succeeds it returns the stored document and writes nothing,
\* and when its read fails and its write succeeds the row still is not
\* replaced.
C18_CreateOrGetKeepsSession ==
    \A h \in Handlers :
        (pc[h] = "done" /\ op[h] = "create_or_get_session")
        => /\ (path[h] = "ok" /\ commits[player_id[h]] = 0)
              => /\ ~committed[h]
                 /\ result[h] = read_session(table, player_id[h]).value
           /\ (committed[h] /\ commits[player_id[h]] = 1)
              => last_commit[player_id[h]].prev # "ok"

\* C19: the pool never has more than pool_size handles out, and while all
\* pool_size are out an operation that asks for a handle does not go on: it
\* stays at its acquisition until a handle is returned.
C19_ExhaustedPoolBlocks ==
    /\ [](pool_lent + others_lent <= pool_size)
    /\ [][\A h \in Handlers :
            (pc[h] \in AcquirePcs /\ pool_lent + others_lent = pool_size)
            => pc'[h] = pc[h]]_vars

\* what a get_session or save_session that met no backend failure has done
\* when it returns: the read returned what the row holds, the save committed
Served(h) ==
    /\ op[h] = "get_session"
       => result[h] = read_session(table, player_id[h]).value
    /\ op[h] = "save_session" => committed[h]

\* C20: on the sqlite backend as on the mysql backend, a get_session that
\* met no backend failure returns what the player's row holds and a
\* save_session that met none has committed its document to the row.
C20_SqliteAsMysql ==
    \A h \in Handlers :
        (pc[h] = "done" /\ scheme \in {"mysql", "sqlite"} /\ ~fault[h])
        => Served(h)

\* the same statement for the mysql backend alone, which holds
C20_MysqlServes ==
    \A h \in Handlers :
        (pc[h] = "done" /\ scheme = "mysql" /\ ~fault[h]) => Served(h)

====
